---- MODULE Spec2Model ----
(***************************************************************************)
(* Employee Management API: the FastAPI handlers of app/main.py over the   *)
(* MongoDB collection opened by app/database.py, and the bearer-token      *)
(* helpers of auth/.  The store is a sequence of documents in scan order.  *)
(***************************************************************************)
EXTENDS Integers, Sequences, FiniteSets, TLC

\* ------------------------------------------------------------------ bounds
\* most documents the collection holds in the concurrent model
MaxDocs == 2

\* most documents of a store the listing is run on
MaxListDocs == 3

\* largest page number and page size the listing is asked for
MaxPage == 2
MaxLimit == 2

\* user documents and create_user calls in flight, together
MaxUsers == 3

\* ------------------------------------------------------------- input data
\* request workers (FastAPI runs the sync handlers in a thread pool)
Procs == {"w1", "w2"}

Ids == {"E1", "E2"}

\* datetime.date values as <<year, month, day>>
Dates == {<<2023, 1, 15>>, <<2021, 12, 3>>}

\* Employee(BaseModel): the write form, every field required
Employee(id, name, dept, sal, jd, sk) ==
    [employee_id |-> id, name |-> name, department |-> dept,
     salary |-> sal, joining_date |-> jd, skills |-> sk]

\* the request bodies POST /employees is driven with
Employees ==
    {Employee("E1", "Ann", "Eng", 100, <<2023, 1, 15>>, <<"Go", "SQL">>),
     Employee("E1", "Bob", "HR", 0, <<2021, 12, 3>>, <<>>),
     Employee("E2", "Cid", "Eng", 0, <<2021, 12, 3>>, <<>>)}

\* Optional[T]: <<>> is None, <<v>> is the value v
None == <<>>
Some(v) == <<v>>

\* EmployeeUpdate(BaseModel): the patch form, every field Optional, default None
EmployeeUpdate(name, dept, sal, jd, sk) ==
    [name |-> name, department |-> dept, salary |-> sal,
     joining_date |-> jd, skills |-> sk]

\* the request bodies PUT /employees/{id} is driven with
Patches ==
    {EmployeeUpdate(None, None, None, None, None),
     EmployeeUpdate(None, None, Some(0), None, None),
     EmployeeUpdate(Some(""), None, None, Some(<<2021, 12, 3>>), Some(<<>>))}

\* ------------------------------------------------------------ bearer tokens
\* a JWT as what jwt.decode sees: signature validity, expiry, payload
Token(sig, expired, sub, role) ==
    [present |-> TRUE, sig |-> sig, expired |-> expired, sub |-> sub, role |-> role]

NoToken == [present |-> FALSE, sig |-> FALSE, expired |-> FALSE, sub |-> "", role |-> ""]

\* the Authorization headers requests are driven with
Tokens == {NoToken, Token(TRUE, FALSE, "admin", "admin"), Token(TRUE, TRUE, "admin", "admin")}

\* decode_jwt: the payload, or an exception (FALSE) when expired or invalid
decode_jwt(token) == token.present /\ token.sig /\ ~token.expired

\* JWTBearer.verify_jwt: True iff decode_jwt does not raise
verify_jwt(token) == decode_jwt(token)

\* JWTBearer.__call__: 403 unless credentials are present and verify
JWTBearer(token) == IF token.present /\ verify_jwt(token) THEN 200 ELSE 403

\* ------------------------------------------------------------ date strings
Digits == <<"0", "1", "2", "3", "4", "5", "6", "7", "8", "9">>

DigitVal(c) == (CHOOSE i \in 1..10 : Digits[i] = c) - 1

\* the character of the last decimal digit of n
Digit(n) == Digits[(n % 10) + 1]

\* date.isoformat(): "YYYY-MM-DD", zero padded
IsoFormat(d) ==
    <<Digit(d[1] \div 1000), Digit(d[1] \div 100), Digit(d[1] \div 10), Digit(d[1]), "-",
      Digit(d[2] \div 10), Digit(d[2]), "-",
      Digit(d[3] \div 10), Digit(d[3])>>

\* a mis-parse that reads the string as YYYY-DD-MM
FromIsoFormatSwapped(s) ==
    <<DigitVal(s[1]) * 1000 + DigitVal(s[2]) * 100 + DigitVal(s[3]) * 10 + DigitVal(s[4]),
      DigitVal(s[9]) * 10 + DigitVal(s[10]),
      DigitVal(s[6]) * 10 + DigitVal(s[7])>>

\* datetime.fromisoformat(s).date()
FromIsoFormat(s) ==
    <<DigitVal(s[1]) * 1000 + DigitVal(s[2]) * 100 + DigitVal(s[3]) * 10 + DigitVal(s[4]),
      DigitVal(s[6]) * 10 + DigitVal(s[7]),
      DigitVal(s[9]) * 10 + DigitVal(s[10])>>

\* employee.model_dump() with joining_date replaced by its isoformat()
employee_dict(employee) ==
    [employee EXCEPT !.joining_date = IsoFormat(employee.joining_date)]

\* EmployeeResponse(**employee) after the stored string is parsed back to a date
EmployeeResponse(doc) ==
    [doc EXCEPT !.joining_date = FromIsoFormat(doc.joining_date)]

\* ------------------------------------------------------------- the store
\* positions of the documents of coll whose employee_id is id, in scan order
Matching(coll, id) == {i \in 1..Len(coll) : coll[i].employee_id = id}

Min(S) == CHOOSE x \in S : \A y \in S : x <= y

\* collection.find_one({"employee_id": id}): <<doc>> or <<>> (None)
find_one(coll, id) ==
    IF Matching(coll, id) = {} THEN None ELSE Some(coll[Min(Matching(coll, id))])

\* the unique index on employee_id, when built, rejects a second document with
\* the same key (DuplicateKeyError)
DuplicateKey(coll, doc, unique) ==
    unique /\ Matching(coll, doc.employee_id) # {}

\* collection.insert_one(doc) when no DuplicateKeyError is raised
insert_one(coll, doc) == Append(coll, doc)

RemoveAt(coll, i) == [j \in 1..(Len(coll) - 1) |-> IF j < i THEN coll[j] ELSE coll[j + 1]]

\* collection.delete_one({"employee_id": id}): removes the first match
delete_one(coll, id) ==
    IF Matching(coll, id) = {} THEN coll ELSE RemoveAt(coll, Min(Matching(coll, id)))

\* result.deleted_count of that delete_one
deleted_count(coll, id) == IF Matching(coll, id) = {} THEN 0 ELSE 1

\* {"$set": update_data} applied to one document
SetFields(doc, update_data) ==
    [f \in DOMAIN doc |-> IF f \in DOMAIN update_data THEN update_data[f] ELSE doc[f]]

\* collection.update_one({"employee_id": id}, {"$set": update_data}): first match
update_one(coll, id, update_data) ==
    IF Matching(coll, id) = {} THEN coll
    ELSE [coll EXCEPT ![Min(Matching(coll, id))] = SetFields(@, update_data)]

\* result.modified_count of that update_one
modified_count(coll, id, update_data) ==
    IF update_one(coll, id, update_data) = coll THEN 0 ELSE 1

\* -------------------------------------------------------------- variables
VARIABLES
    envSet,        \* MONGODB_URL and DATABASE_NAME are set in the environment
    appState,      \* "starting" until startup_event has run, then "serving"
    database,      \* the module global of database.py: "None" or "db"
    uniqueIndex,   \* the store has built the unique index on employee_id
    startupFailed, \* history: connect_to_mongo raised inside startup_event
    employees,     \* the collection, in scan order
    pc,            \* per worker: the handler step it is at
    req,           \* per worker: the request it is serving
    resp,          \* the last response a handler returned
    lastWrite,     \* history, per employee_id: the last write that took effect
    race,          \* history: two overlapping creates of one fresh id
    users,         \* the users collection, in scan order
    calls          \* per thread: the create_user call it runs and how the last ended

vars == <<envSet, appState, database, uniqueIndex, startupFailed, employees,
          pc, req, resp, lastWrite, race, users, calls>>

\* the create_index calls of connect_to_mongo; the first builds the unique index
\* on employee_id, the others build indexes no result depends on
NumIndexes == 5

\* the query parameters of GET /employees
Query(department, page, limit) == [department |-> department, page |-> page, limit |-> limit]

NoQuery == Query(None, 0, 0)

NoReq == [op |-> "none", token |-> NoToken, id |-> "", employee |-> None, patch |-> None,
          query |-> NoQuery]

NoResp == [op |-> "none", id |-> "", token |-> NoToken, status |-> 0, detail |-> "",
           body |-> None, query |-> NoQuery]

\* a handler's return value or the HTTPException it raised
Response(op, id, t, status, detail, body) ==
    [op |-> op, id |-> id, token |-> t, status |-> status, detail |-> detail, body |-> body,
     query |-> NoQuery]

NoWrite == [kind |-> "other", employee |-> None]

NoRace == [id |-> "", procs |-> {}, done |-> {}]

\* a thread that runs no create_user call and has ended none
NoCall == [at |-> "idle", user_data |-> None, result |-> "none"]

Init ==
    /\ envSet \in BOOLEAN
    /\ appState = "starting"
    /\ database = "None"
    /\ uniqueIndex = FALSE
    /\ startupFailed = FALSE
    /\ employees = <<>>
    /\ pc = [p \in Procs |-> "idle"]
    /\ req = [p \in Procs |-> NoReq]
    /\ resp = NoResp
    /\ lastWrite = [i \in Ids |-> NoWrite]
    /\ race = NoRace
    /\ users = <<>>
    /\ calls = [p \in Procs |-> NoCall]

\* ---------------------------------------------------------------- startup
\* connect_to_mongo with the first k create_index calls succeeding: the globals
\* client and database are assigned before the first create_index runs
connect_to_mongo(k) ==
    IF ~envSet
    THEN /\ UNCHANGED <<database, uniqueIndex>>
    ELSE /\ database' = "db"
         /\ uniqueIndex' = (k >= 1)

\* connect_to_mongo raises: an unset environment variable, or a failed create_index
ConnectRaises(k) == ~envSet \/ k < NumIndexes

\* startup_event: the exception of connect_to_mongo is caught and printed, and
\* the application goes on to serve
startup_event ==
    /\ appState = "starting"
    /\ \E k \in 0..NumIndexes :
          /\ connect_to_mongo(k)
          /\ startupFailed' = ConnectRaises(k)
    /\ appState' = "serving"
    /\ UNCHANGED <<users, calls, envSet, employees, pc, req, resp, lastWrite, race>>

\* get_collection raises inside a handler: get_database finds database None and
\* calls connect_to_mongo again, which raises as it did at startup
GetCollectionRaises == database = "None"

\* ------------------------------------------------------- history variables
RaceComplete == race.procs # {} /\ {d[1] : d \in race.done} = race.procs

\* a worker of the race that has not yet run its insert_one
Pending(p) == p \in race.procs /\ p \notin {d[1] : d \in race.done}

\* the race after worker p accepts a create of id
RaceOnRequest(p, id) ==
    IF RaceComplete THEN NoRace
    ELSE IF /\ race = NoRace
            /\ database # "None"
            /\ Matching(employees, id) = {}
            /\ \E q \in Procs \ {p} : pc[q] = "create" /\ req[q].id = id
    THEN [id |-> id,
          procs |-> {p, CHOOSE q \in Procs \ {p} : pc[q] = "create" /\ req[q].id = id},
          done |-> {}]
    ELSE race

\* the race after worker p ran a store operation on id; wrote says it took effect
RaceOnStore(p, id, status, wrote) ==
    IF RaceComplete THEN NoRace
    ELSE IF race.id = id /\ Pending(p) THEN [race EXCEPT !.done = @ \cup {<<p, status>>}]
    ELSE IF race.id = id /\ wrote THEN NoRace
    ELSE race

\* ---------------------------------------------------------------- requests
\* the race once it has been decided: the next step of anyone forgets it
RaceAfterStep == IF RaceComplete THEN NoRace ELSE race

InFlightCreates == Cardinality({q \in Procs : pc[q] = "create"})

\* the handler of worker p returns (or raises) and the worker is free again
Return(p, op, id, t, status, detail, body) ==
    /\ resp' = Response(op, id, t, status, detail, body)
    /\ pc' = [pc EXCEPT ![p] = "idle"]
    /\ req' = [req EXCEPT ![p] = NoReq]
    /\ UNCHANGED <<users, calls, envSet, appState, database, uniqueIndex, startupFailed>>

\* worker p is free and the application serves
Free(p) == appState = "serving" /\ pc[p] = "idle"

\* ------------------------------------------------------------------ create
\* POST /employees reaches worker p: the body is validated into an Employee;
\* no dependency of the route reads the Authorization header
create_employee_request(p, toks) ==
    /\ Free(p)
    /\ Len(employees) + InFlightCreates < MaxDocs
    /\ \E e \in Employees, t \in toks :
          /\ req' = [req EXCEPT ![p] = [NoReq EXCEPT !.op = "create", !.token = t,
                                        !.id = e.employee_id, !.employee = Some(e)]]
          /\ race' = RaceOnRequest(p, e.employee_id)
    /\ pc' = [pc EXCEPT ![p] = "create"]
    /\ UNCHANGED <<users, calls, envSet, appState, database, uniqueIndex, startupFailed, employees,
                   resp, lastWrite>>

\* create_employee: one insert_one; DuplicateKeyError becomes 400
create_employee(p) ==
    /\ pc[p] = "create"
    /\ LET e == req[p].employee[1]
           id == e.employee_id
           t == req[p].token
       IN IF GetCollectionRaises
          THEN /\ Return(p, "create", id, t, 500, "Internal server error", None)
               /\ race' = RaceOnStore(p, id, 500, FALSE)
               /\ UNCHANGED <<employees, lastWrite>>
          ELSE IF DuplicateKey(employees, employee_dict(e), uniqueIndex)
          THEN /\ Return(p, "create", id, t, 400, "already exists", None)
               /\ race' = RaceOnStore(p, id, 400, FALSE)
               /\ UNCHANGED <<employees, lastWrite>>
          ELSE /\ employees' = insert_one(employees, employee_dict(e))
               /\ Return(p, "create", id, t, 201, "created successfully", None)
               /\ race' = RaceOnStore(p, id, 201, TRUE)
               /\ lastWrite' = [lastWrite EXCEPT ![id] =
                     IF Matching(employees, id) = {}
                     THEN [kind |-> "created", employee |-> Some(e)]
                     ELSE NoWrite]

\* --------------------------------------------------------------------- get
\* get_employee: find_one, 404 when absent, the stored date parsed back
get_employee(p, toks) ==
    /\ Free(p)
    /\ \E id \in Ids, t \in toks :
          LET found == find_one(employees, id)
          IN IF GetCollectionRaises
             THEN Return(p, "get", id, t, 500, "Internal server error", None)
             ELSE IF found = None
             THEN Return(p, "get", id, t, 404, "not found", None)
             ELSE Return(p, "get", id, t, 200, "", Some(EmployeeResponse(found[1])))
    /\ race' = RaceAfterStep
    /\ UNCHANGED <<employees, lastWrite>>

\* ------------------------------------------------------------------ update
PatchFields == {"name", "department", "salary", "joining_date", "skills"}

\* a falsy value: what "if value:" instead of "if value is not None:" would skip
Falsy(f, v) ==
    \/ f \in {"name", "department"} /\ v = ""
    \/ f = "salary" /\ v = 0
    \/ f = "skills" /\ v = <<>>

\* the update built with a truthiness test instead of "is not None"
update_data_truthy(patch) ==
    [f \in {g \in PatchFields : patch[g] # None /\ ~Falsy(g, patch[g][1])} |->
        IF f = "joining_date" THEN IsoFormat(patch[f][1]) ELSE patch[f][1]]

\* update_data: the non-None fields of the patch, the date as its isoformat()
update_data(patch) ==
    [f \in {g \in PatchFields : patch[g] # None} |->
        IF f = "joining_date" THEN IsoFormat(patch[f][1]) ELSE patch[f][1]]

\* an empty update let through to the write
NoFieldsNever(data) == FALSE

\* "if not update_data": the patch set no field
NoFields(data) == DOMAIN data = {}

\* PUT /employees/{employee_id} reaches worker p with a validated EmployeeUpdate
update_employee_request(p, toks) ==
    /\ Free(p)
    /\ \E id \in Ids, patch \in Patches, t \in toks :
          req' = [req EXCEPT ![p] = [NoReq EXCEPT !.op = "update", !.token = t, !.id = id,
                                                 !.patch = Some(patch)]]
    /\ pc' = [pc EXCEPT ![p] = "update"]
    /\ race' = RaceAfterStep
    /\ UNCHANGED <<users, calls, envSet, appState, database, uniqueIndex, startupFailed, employees,
                   resp, lastWrite>>

\* update_employee up to the write: find_one, 404 when absent, 400 on an empty patch
update_employee(p) ==
    /\ pc[p] = "update"
    /\ LET id == req[p].id
           t == req[p].token
       IN IF GetCollectionRaises
          THEN Return(p, "update", id, t, 500, "Internal server error", None)
          ELSE IF find_one(employees, id) = None
          THEN Return(p, "update", id, t, 404, "not found", None)
          ELSE IF NoFields(update_data(req[p].patch[1]))
          THEN Return(p, "update", id, t, 400, "No fields provided for update", None)
          ELSE /\ pc' = [pc EXCEPT ![p] = "update_write"]
               /\ UNCHANGED <<users, calls, envSet, appState, database, uniqueIndex, startupFailed,
                              req, resp>>
    /\ race' = RaceAfterStep
    /\ UNCHANGED <<employees, lastWrite>>

\* update_employee from the write on: update_one, then the message by modified_count
update_employee_write(p) ==
    /\ pc[p] = "update_write"
    /\ LET id == req[p].id
           data == update_data(req[p].patch[1])
       IN /\ employees' = update_one(employees, id, data)
          /\ IF modified_count(employees, id, data) > 0
             THEN Return(p, "update", id, req[p].token, 200, "updated successfully", None)
             ELSE Return(p, "update", id, req[p].token, 200, "No changes made", None)
          /\ lastWrite' = [lastWrite EXCEPT ![id] =
                IF Matching(employees, id) = {} THEN @
                ELSE NoWrite]
    /\ race' = RaceAfterStep

\* ------------------------------------------------------------------ delete
\* DELETE /employees/{employee_id} reaches worker p
delete_employee_request(p, toks) ==
    /\ Free(p)
    /\ \E id \in Ids, t \in toks :
          req' = [req EXCEPT ![p] = [NoReq EXCEPT !.op = "delete", !.token = t, !.id = id]]
    /\ pc' = [pc EXCEPT ![p] = "delete"]
    /\ race' = RaceAfterStep
    /\ UNCHANGED <<users, calls, envSet, appState, database, uniqueIndex, startupFailed, employees,
                   resp, lastWrite>>

\* delete_employee: one delete_one; 404 when deleted_count is 0
delete_employee(p) ==
    /\ pc[p] = "delete"
    /\ LET id == req[p].id
           t == req[p].token
       IN IF GetCollectionRaises
          THEN /\ Return(p, "delete", id, t, 500, "Internal server error", None)
               /\ race' = RaceOnStore(p, id, 500, FALSE)
               /\ UNCHANGED <<employees, lastWrite>>
          ELSE IF deleted_count(employees, id) > 0
          THEN /\ employees' = delete_one(employees, id)
               /\ Return(p, "delete", id, t, 200, "deleted successfully", None)
               /\ race' = RaceOnStore(p, id, 200, TRUE)
               /\ lastWrite' = [lastWrite EXCEPT ![id] = [kind |-> "deleted", employee |-> None]]
          ELSE /\ Return(p, "delete", id, t, 404, "not found", None)
               /\ race' = RaceOnStore(p, id, 404, FALSE)
               /\ UNCHANGED <<employees, lastWrite>>

\* -------------------------------------------------------------------- list
\* "if department:" -- the filter is built for a non-empty department only
HasFilter(department) == department # None /\ department[1] # ""

\* the documents the query {} or {"department": department} matches
QueryMatches(doc, department) == HasFilter(department) => doc.department = department[1]

\* the skip of page 1 taken for a whole page
SkipFromZero(page, limit) == page * limit

\* skip = (page - 1) * limit
Skip(page, limit) == (page - 1) * limit

\* collection.find(query): the matching documents in scan order
Scan(coll, department) == SelectSeq(coll, LAMBDA doc : QueryMatches(doc, department))

\* collection.find(query).skip(skip).limit(limit)
find(coll, department, skip, limit) ==
    LET matched == Scan(coll, department)
        last == IF skip + limit < Len(matched) THEN skip + limit ELSE Len(matched)
    IN SubSeq(matched, skip + 1, last)

\* date comparison: a is strictly earlier than b
DateLess(a, b) ==
    \/ a[1] < b[1]
    \/ a[1] = b[1] /\ a[2] < b[2]
    \/ a[1] = b[1] /\ a[2] = b[2] /\ a[3] < b[3]

\* one record put into an ascending sequence after the records not later than it
RECURSIVE InsertByDate(_, _)
InsertByDate(sorted, emp) ==
    IF sorted = <<>> THEN <<emp>>
    ELSE IF DateLess(emp.joining_date, sorted[1].joining_date) THEN <<emp>> \o sorted
    ELSE <<sorted[1]>> \o InsertByDate(Tail(sorted), emp)

\* one record put into a descending sequence (reverse=True)
RECURSIVE InsertByDateReverse(_, _)
InsertByDateReverse(sorted, emp) ==
    IF sorted = <<>> THEN <<emp>>
    ELSE IF DateLess(sorted[1].joining_date, emp.joining_date) THEN <<emp>> \o sorted
    ELSE <<sorted[1]>> \o InsertByDateReverse(Tail(sorted), emp)

RECURSIVE SortedNewestFirst(_)
SortedNewestFirst(emps) ==
    IF emps = <<>> THEN <<>>
    ELSE InsertByDateReverse(SortedNewestFirst(SubSeq(emps, 1, Len(emps) - 1)), emps[Len(emps)])

\* sorted(employees, key=joining_date, reverse=False): ascending and stable
RECURSIVE employees_sorted(_)
employees_sorted(emps) ==
    IF emps = <<>> THEN <<>>
    ELSE InsertByDate(employees_sorted(SubSeq(emps, 1, Len(emps) - 1)), emps[Len(emps)])

\* the stored date strings of the fetched documents parsed back to dates
ParseDates(docs) == [i \in 1..Len(docs) |-> EmployeeResponse(docs[i])]

\* what list_employees returns: the fetched page, dates parsed, sorted by date
list_result(coll, department, page, limit) ==
    employees_sorted(ParseDates(find(coll, department, Skip(page, limit), limit)))

Departments == {None, Some("Eng"), Some("HR"), Some("")}

\* Query(1, ge=1) and Query(10, ge=1, le=100): what the validation lets through
ValidPaging(page, limit) == page >= 1 /\ limit >= 1 /\ limit <= 100

\* GET /employees reaches worker p with validated query parameters
list_employees_request(p, toks) ==
    /\ Free(p)
    /\ \E dep \in Departments, page \in 1..MaxPage, limit \in 1..MaxLimit, t \in toks :
          /\ ValidPaging(page, limit)
          /\ req' = [req EXCEPT ![p] = [NoReq EXCEPT !.op = "list", !.token = t,
                                                      !.query = Query(dep, page, limit)]]
    /\ pc' = [pc EXCEPT ![p] = "list"]
    /\ race' = RaceAfterStep
    /\ UNCHANGED <<users, calls, envSet, appState, database, uniqueIndex, startupFailed, employees,
                   resp, lastWrite>>

\* list_employees: one find with skip and limit, then the sort of the page
list_employees(p) ==
    /\ pc[p] = "list"
    /\ LET q == req[p].query
       IN IF GetCollectionRaises
          THEN resp' = [Response("list", "", req[p].token, 500, "Internal server error", None)
                          EXCEPT !.query = q]
          ELSE resp' = [Response("list", "", req[p].token, 200, "",
                                 list_result(employees, q.department, q.page, q.limit))
                          EXCEPT !.query = q]
    /\ pc' = [pc EXCEPT ![p] = "idle"]
    /\ req' = [req EXCEPT ![p] = NoReq]
    /\ race' = RaceAfterStep
    /\ UNCHANGED <<users, calls, envSet, appState, database, uniqueIndex, startupFailed, employees,
                   lastWrite>>

\* ------------------------------------------------------------------ search
\* the code points of the names and department names the stores hold; the store
\* orders strings by comparing them code point by code point
CodePoints(str) ==
    CASE str = "" -> <<>>
      [] str = "Ann" -> <<65, 110, 110>>
      [] str = "Bob" -> <<66, 111, 98>>
      [] str = "Cid" -> <<67, 105, 100>>
      [] str = "Dan" -> <<68, 97, 110>>
      [] str = "ann" -> <<97, 110, 110>>
      [] str = "Eng" -> <<69, 110, 103>>
      [] str = "HR" -> <<72, 82>>

\* a is before b in the order of the code point sequences
RECURSIVE CodesLess(_, _)
CodesLess(a, b) ==
    IF b = <<>> THEN FALSE
    ELSE IF a = <<>> THEN TRUE
    ELSE IF a[1] # b[1] THEN a[1] < b[1]
    ELSE CodesLess(Tail(a), Tail(b))

\* string a sorts strictly before string b
StringLess(a, b) == CodesLess(CodePoints(a), CodePoints(b))

\* a match that compares the skills without regard to case
SkillMatchesIgnoringCase(doc, skill) ==
    LET Lower(str) == CASE str = "Go" -> "go" [] str = "SQL" -> "sql" [] str = "G" -> "g"
                        [] OTHER -> str
    IN \E i \in 1..Len(doc.skills) : Lower(doc.skills[i]) = Lower(skill)

\* {"skills": {"$in": [skill]}}: some element of the array equals skill
SkillMatches(doc, skill) == \E i \in 1..Len(doc.skills) : doc.skills[i] = skill

\* one document put into a sequence ascending by name
RECURSIVE InsertByName(_, _)
InsertByName(sorted, doc) ==
    IF sorted = <<>> THEN <<doc>>
    ELSE IF StringLess(doc.name, sorted[1].name) THEN <<doc>> \o sorted
    ELSE <<sorted[1]>> \o InsertByName(Tail(sorted), doc)

\* cursor.sort("name", 1)
RECURSIVE SortByName(_)
SortByName(docs) ==
    IF docs = <<>> THEN <<>>
    ELSE InsertByName(SortByName(SubSeq(docs, 1, Len(docs) - 1)), docs[Len(docs)])

\* what search_employees_by_skill returns: the names of the matching documents
search_result(coll, skill) ==
    LET docs == SortByName(SelectSeq(coll, LAMBDA doc : SkillMatches(doc, skill)))
    IN [i \in 1..Len(docs) |-> docs[i].name]

\* the skill parameters GET /employees/search is driven with
Skills == {"Go", "go", "G", "SQL", "Rust"}

\* GET /employees/search?skill=... reaches worker p
search_employees_by_skill_request(p, toks) ==
    /\ Free(p)
    /\ \E skill \in Skills, t \in toks :
          req' = [req EXCEPT ![p] = [NoReq EXCEPT !.op = "search", !.token = t, !.id = skill]]
    /\ pc' = [pc EXCEPT ![p] = "search"]
    /\ race' = RaceAfterStep
    /\ UNCHANGED <<users, calls, envSet, appState, database, uniqueIndex, startupFailed, employees,
                   resp, lastWrite>>

\* search_employees_by_skill: one find sorted by name, then the names
search_employees_by_skill(p) ==
    /\ pc[p] = "search"
    /\ IF GetCollectionRaises
       THEN Return(p, "search", req[p].id, req[p].token, 500, "Internal server error", None)
       ELSE Return(p, "search", req[p].id, req[p].token, 200, "",
                   search_result(employees, req[p].id))
    /\ race' = RaceAfterStep
    /\ UNCHANGED <<employees, lastWrite>>

\* -------------------------------------------------------------- avg-salary
\* the distinct values of department in the collection ($group _id)
GroupKeys(coll) == {coll[i].department : i \in 1..Len(coll)}

RECURSIVE SumSalary(_, _)
SumSalary(coll, dep) ==
    IF coll = <<>> THEN 0
    ELSE (IF coll[1].department = dep THEN coll[1].salary ELSE 0) + SumSalary(Tail(coll), dep)

GroupSize(coll, dep) == Cardinality({i \in 1..Len(coll) : coll[i].department = dep})

\* the quotient cut off after two decimals, in hundredths
Truncate2(sum, n) == (100 * sum) \div n

\* {"$round": [avg, 2]} of sum / n, in hundredths: to the nearest hundredth,
\* a tie to the even one
Round2(sum, n) ==
    LET q == (100 * sum) \div n
        r == (100 * sum) % n
    IN IF 2 * r < n THEN q
       ELSE IF 2 * r > n THEN q + 1
       ELSE IF q % 2 = 0 THEN q ELSE q + 1

\* DepartmentAvgSalary: avg_salary is held in hundredths
DepartmentAvgSalary(dep, hundredths) == [department |-> dep, avg_salary |-> hundredths]

\* the groups ascending by department ({"$sort": {"department": 1}})
RECURSIVE SortedGroups(_, _)
SortedGroups(coll, deps) ==
    IF deps = {} THEN <<>>
    ELSE LET first == CHOOSE d \in deps : \A e \in deps \ {d} : StringLess(d, e)
         IN <<DepartmentAvgSalary(first,
                  Round2(SumSalary(coll, first), GroupSize(coll, first)))>>
            \o SortedGroups(coll, deps \ {first})

\* what get_average_salary_by_department returns: the aggregation pipeline
avg_salary_result(coll) == SortedGroups(coll, GroupKeys(coll))

\* GET /employees/avg-salary reaches worker p
get_average_salary_by_department_request(p, toks) ==
    /\ Free(p)
    /\ \E t \in toks : req' = [req EXCEPT ![p] = [NoReq EXCEPT !.op = "avg", !.token = t]]
    /\ pc' = [pc EXCEPT ![p] = "avg"]
    /\ race' = RaceAfterStep
    /\ UNCHANGED <<users, calls, envSet, appState, database, uniqueIndex, startupFailed, employees,
                   resp, lastWrite>>

\* get_average_salary_by_department: one aggregate
get_average_salary_by_department(p) ==
    /\ pc[p] = "avg"
    /\ IF GetCollectionRaises
       THEN Return(p, "avg", "", req[p].token, 500, "Internal server error", None)
       ELSE Return(p, "avg", "", req[p].token, 200, "", avg_salary_result(employees))
    /\ race' = RaceAfterStep
    /\ UNCHANGED <<employees, lastWrite>>

\* ------------------------------------------------------------------- users
\* UserCreate as create_default_admin builds it
UserCreate(username, email, password, role) ==
    [username |-> username, email |-> email, password |-> password, role |-> role]

\* the registrations create_user is called with
UserData ==
    {UserCreate("bob", "b@x", "pw1", "user"),
     UserCreate("bob", "c@x", "pw2", "admin"),
     UserCreate("amy", "b@x", "pw1", "user")}

\* get_password_hash: a digest of the password, never the password
get_password_hash(password) == <<"bcrypt", password>>

\* the document create_user stores (created_at, which no step reads, is left out)
user_doc(user_data) ==
    [username |-> user_data.username, email |-> user_data.email,
     hashed_password |-> get_password_hash(user_data.password),
     role |-> user_data.role, is_active |-> TRUE]

\* collection.find_one({field: value}) is truthy
FindsUser(coll, field, value) == \E i \in 1..Len(coll) : coll[i][field] = value

\* the call of thread p ends with result
CallEnds(p, result) ==
    calls' = [calls EXCEPT ![p] = [at |-> "idle", user_data |-> None, result |-> result]]

\* thread p calls create_user(user_data)
create_user_call(p) ==
    /\ calls[p].at = "idle"
    /\ Len(users) + Cardinality({q \in Procs : calls[q].at # "idle"}) < MaxUsers
    /\ \E user_data \in UserData :
          calls' = [calls EXCEPT ![p] = [at |-> "username", user_data |-> Some(user_data),
                                         result |-> "none"]]
    /\ UNCHANGED <<users, envSet, appState, database, uniqueIndex, startupFailed, employees,
                   pc, req, resp, lastWrite, race>>

\* create_user: get_user_collection and the lookup of the username
create_user(p) ==
    /\ calls[p].at = "username"
    /\ IF GetCollectionRaises
       THEN CallEnds(p, "Database connection not established")
       ELSE IF FindsUser(users, "username", calls[p].user_data[1].username)
       THEN CallEnds(p, "Username already exists")
       ELSE calls' = [calls EXCEPT ![p].at = "email"]
    /\ UNCHANGED <<users, envSet, appState, database, uniqueIndex, startupFailed, employees,
                   pc, req, resp, lastWrite, race>>

\* create_user: the lookup of the email
create_user_email(p) ==
    /\ calls[p].at = "email"
    /\ IF FindsUser(users, "email", calls[p].user_data[1].email)
       THEN CallEnds(p, "Email already registered")
       ELSE calls' = [calls EXCEPT ![p].at = "insert"]
    /\ UNCHANGED <<users, envSet, appState, database, uniqueIndex, startupFailed, employees,
                   pc, req, resp, lastWrite, race>>

\* create_user: insert_one into the users collection, which has no unique index
create_user_insert(p) ==
    /\ calls[p].at = "insert"
    /\ users' = Append(users, user_doc(calls[p].user_data[1]))
    /\ CallEnds(p, "created")
    /\ UNCHANGED <<envSet, appState, database, uniqueIndex, startupFailed, employees,
                   pc, req, resp, lastWrite, race>>

\* ----------------------------------------------------------- specification
\* the callers of tests.py: no Authorization header
Anonymous == {NoToken}

\* two workers serving anonymous callers concurrently
Next ==
    \/ startup_event
    \/ \E p \in Procs : create_employee_request(p, Anonymous)
    \/ \E p \in Procs : create_employee(p)
    \/ \E p \in Procs : get_employee(p, Anonymous)
    \/ \E p \in Procs : update_employee_request(p, Anonymous)
    \/ \E p \in Procs : update_employee(p)
    \/ \E p \in Procs : update_employee_write(p)
    \/ \E p \in Procs : delete_employee_request(p, Anonymous)
    \/ \E p \in Procs : delete_employee(p)

Spec == Init /\ [][Next]_vars

\* one worker serving callers with and without valid bearer tokens
NextAuth ==
    \/ startup_event
    \/ create_employee_request("w1", Tokens)
    \/ create_employee("w1")
    \/ get_employee("w1", Tokens)
    \/ update_employee_request("w1", Tokens)
    \/ update_employee("w1")
    \/ update_employee_write("w1")
    \/ delete_employee_request("w1", Tokens)
    \/ delete_employee("w1")

SpecAuth == Init /\ [][NextAuth]_vars

\* the employees the listed stores are made of
Listed ==
    {Employee("E1", "Ann", "Eng", 100, <<2023, 1, 15>>, <<"Go", "SQL">>),
     Employee("E2", "Cid", "Eng", 0, <<2021, 12, 3>>, <<>>),
     Employee("E3", "Bob", "HR", 60, <<2022, 6, 30>>, <<"SQL">>),
     Employee("E4", "Dan", "Eng", 120, <<2021, 12, 3>>, <<"Go">>)}

\* the stores a started service holds after creates of distinct Listed employees
RECURSIVE StoresOfLen(_)
StoresOfLen(n) ==
    IF n = 0 THEN {<<>>}
    ELSE {Append(st, employee_dict(e)) : st \in StoresOfLen(n - 1), e \in Listed}

ListStores ==
    {st \in UNION {StoresOfLen(n) : n \in 0..MaxListDocs} :
        \A i, j \in 1..Len(st) : i # j => st[i].employee_id # st[j].employee_id}

\* a service that started with every index built, holding one of the stores
InitQuery ==
    /\ envSet = TRUE
    /\ appState = "serving"
    /\ database = "db"
    /\ uniqueIndex = TRUE
    /\ startupFailed = FALSE
    /\ employees \in ListStores
    /\ pc = [p \in Procs |-> "idle"]
    /\ req = [p \in Procs |-> NoReq]
    /\ resp = NoResp
    /\ lastWrite = [i \in Ids |-> NoWrite]
    /\ race = NoRace
    /\ users = <<>>
    /\ calls = [p \in Procs |-> NoCall]

\* listings of a store that no request modifies
NextQuery ==
    \/ list_employees_request("w1", Anonymous)
    \/ list_employees("w1")

SpecQuery == InitQuery /\ [][NextQuery]_vars

\* the employees the searched and aggregated stores are made of
Staff ==
    {Employee("E1", "Bob", "Eng", 100, <<2023, 1, 15>>, <<"Go", "SQL">>),
     Employee("E2", "Ann", "Eng", 100, <<2021, 12, 3>>, <<"go">>),
     Employee("E3", "Ann", "HR", 60, <<2022, 6, 30>>, <<"Go", "Go">>),
     Employee("E4", "Cid", "Eng", 0, <<2021, 12, 3>>, <<>>)}

\* the stores a started service holds after creates of distinct Staff employees
RECURSIVE StaffStoresOfLen(_)
StaffStoresOfLen(n) ==
    IF n = 0 THEN {<<>>}
    ELSE {Append(st, employee_dict(e)) : st \in StaffStoresOfLen(n - 1), e \in Staff}

StaffStores ==
    {st \in UNION {StaffStoresOfLen(n) : n \in 0..MaxListDocs} :
        \A i, j \in 1..Len(st) : i # j => st[i].employee_id # st[j].employee_id}

\* a service that started with every index built, holding one of the stores
InitReport ==
    /\ envSet = TRUE
    /\ appState = "serving"
    /\ database = "db"
    /\ uniqueIndex = TRUE
    /\ startupFailed = FALSE
    /\ employees \in StaffStores
    /\ pc = [p \in Procs |-> "idle"]
    /\ req = [p \in Procs |-> NoReq]
    /\ resp = NoResp
    /\ lastWrite = [i \in Ids |-> NoWrite]
    /\ race = NoRace
    /\ users = <<>>
    /\ calls = [p \in Procs |-> NoCall]

\* skill searches and salary averages of a store that no request modifies
NextReport ==
    \/ search_employees_by_skill_request("w1", Anonymous)
    \/ search_employees_by_skill("w1")
    \/ get_average_salary_by_department_request("w1", Anonymous)
    \/ get_average_salary_by_department("w1")

SpecReport == InitReport /\ [][NextReport]_vars

\* a started service with an empty users collection
InitUsers ==
    /\ envSet = TRUE
    /\ appState = "serving"
    /\ database = "db"
    /\ uniqueIndex = TRUE
    /\ startupFailed = FALSE
    /\ employees = <<>>
    /\ pc = [p \in Procs |-> "idle"]
    /\ req = [p \in Procs |-> NoReq]
    /\ resp = NoResp
    /\ lastWrite = [i \in Ids |-> NoWrite]
    /\ race = NoRace
    /\ users = <<>>
    /\ calls = [p \in Procs |-> NoCall]

\* two threads registering users
NextUsers ==
    \E p \in Procs :
        \/ create_user_call(p)
        \/ create_user(p)
        \/ create_user_email(p)
        \/ create_user_insert(p)

SpecUsers == InitUsers /\ [][NextUsers]_vars

\* ------------------------------------------------------------------ claims
\* worker p leaves handler step at in this step
Leaves(p, at) == pc[p] = at /\ pc'[p] # at

\* C1: two creates of the same employee_id that overlap while the store holds
\* no record with that id end with exactly one success (201) and one Conflict
\* (400), and the store then holds exactly one record with that id.
C1_OneCreateWins ==
    RaceComplete =>
        /\ {d[2] : d \in race.done} = {201, 400}
        /\ Cardinality(Matching(employees, race.id)) = 1

\* C2: a create whose employee_id already belongs to a stored record fails with
\* Conflict and leaves the store exactly as it was.
C2_CreateExistingConflicts ==
    [][\A p \in Procs :
          (Leaves(p, "create") /\ Matching(employees, req[p].id) # {}) =>
              /\ resp'.status = 400
              /\ resp'.detail = "already exists"
              /\ employees' = employees]_vars

\* C3: the employee collection changes only in a step of a caller whose bearer
\* token the JWTBearer dependency accepts (present, valid signature, unexpired).
C3_MutationNeedsToken ==
    [][employees' # employees => JWTBearer(resp'.token) = 200]_vars

\* a request whose handler got past get_collection and ran its store operation
ExecutedAgainstStore(r) == r.op # "none" /\ r.detail # "Internal server error"

\* C4: after connect_to_mongo failed during startup, no request is executed
\* against the store.
C4_FailedStartupNeverServes ==
    startupFailed => ~ExecutedAgainstStore(resp)

\* dates the isoformat / fromisoformat round trip is checked on
RoundTripDates ==
    {<<y, m, d>> : y \in {1, 999, 2023, 9999}, m \in {1, 9, 10, 12}, d \in {1, 9, 10, 31}}

\* C5: a get of an id whose last write was the create of record r on a store
\* without that id returns r, field for field, joining_date as the same date;
\* isoformat then fromisoformat gives back the date (a fact of no state,
\* evaluated in the initial states).
C5_CreateGetRoundTrip ==
    /\ (resp.op = "get" /\ resp.status # 500 /\ lastWrite[resp.id].kind = "created") =>
           /\ resp.status = 200
           /\ resp.body = lastWrite[resp.id].employee
    /\ appState = "starting" => \A d \in RoundTripDates : FromIsoFormat(IsoFormat(d)) = d

\* a get has just returned the record created before it
C5_Witness ==
    /\ resp.op = "get" /\ resp.status = 200
    /\ lastWrite[resp.id].kind = "created"
    /\ resp.body[1].joining_date = <<2023, 1, 15>>

\* C6: the write of an update changes exactly the non-null fields of the patch
\* on the matched record: they take the patch values (0, "" and [] included),
\* all other fields, employee_id and all other records keep their values.
C6_UpdateSetsPatchedFields ==
    [][\A p \in Procs :
          Leaves(p, "update_write") =>
              LET id == req[p].id
                  patch == req[p].patch[1]
                  M == Matching(employees, id)
              IN IF M = {} THEN employees' = employees
                 ELSE /\ Len(employees') = Len(employees)
                      /\ \A j \in 1..Len(employees) :
                            j # Min(M) => employees'[j] = employees[j]
                      /\ employees'[Min(M)].employee_id = id
                      /\ \A f \in PatchFields :
                            IF patch[f] = None
                            THEN employees'[Min(M)][f] = employees[Min(M)][f]
                            ELSE IF f = "joining_date"
                            THEN FromIsoFormat(employees'[Min(M)][f]) = patch[f][1]
                            ELSE employees'[Min(M)][f] = patch[f][1]]_vars

\* an update has just stored an empty name and an empty skills list
C6_Witness ==
    /\ resp.op = "update" /\ resp.detail = "updated successfully"
    /\ \E i \in 1..Len(employees) :
          /\ employees[i].employee_id = resp.id
          /\ employees[i].name = "" /\ employees[i].skills = <<>>
          /\ employees[i].department = "Eng"

\* the patch sets no field: every field is None
EmptyPatch(patch) == \A f \in PatchFields : patch[f] = None

\* C7: an update of a stored employee_id with a patch whose fields are all null
\* fails with 400 "No fields provided" and changes nothing in the store.
C7_EmptyPatchRejected ==
    [][\A p \in Procs :
          (/\ Leaves(p, "update")
           /\ EmptyPatch(req[p].patch[1])
           /\ Matching(employees, req[p].id) # {}) =>
              /\ pc'[p] = "idle"
              /\ resp'.status = 400
              /\ resp'.detail = "No fields provided for update"
              /\ employees' = employees]_vars

\* an empty patch on a stored id has just been rejected
C7_Witness ==
    /\ resp.op = "update" /\ resp.status = 400
    /\ Matching(employees, resp.id) # {}

\* C8: on a reachable store, a delete of an id with no stored record fails with
\* NotFound and changes nothing; a delete of a stored id succeeds and removes a
\* record; a delete that follows a successful delete of the same id, with no
\* create of it in between, fails with NotFound.
C8_DeleteNotFound ==
    [][\A p \in Procs :
          (Leaves(p, "delete") /\ ~GetCollectionRaises) =>
              LET id == req[p].id
              IN /\ Matching(employees, id) = {} =>
                       resp'.status = 404 /\ employees' = employees
                 /\ Matching(employees, id) # {} =>
                       resp'.status = 200 /\ Len(employees') = Len(employees) - 1
                 /\ lastWrite[id].kind = "deleted" => resp'.status = 404]_vars

\* the smaller of two numbers
Smaller(a, b) == IF a < b THEN a ELSE b

\* the employee_ids of the records of a page
IdsOf(page) == {page[i].employee_id : i \in 1..Len(page)}

\* C9: on an unmodified store with N records matching the filter, a page holds
\* min(limit, max(0, N - (page-1)*limit)) records; the pages of that filter and
\* limit are pairwise disjoint and together hold exactly the N matching records.
C9_PagesPartition ==
    (resp.op = "list" /\ resp.status = 200) =>
        LET dep == resp.query.department
            limit == resp.query.limit
            matching == Scan(employees, dep)
            rest == Len(matching) - (resp.query.page - 1) * limit
            pages == 1..(Len(employees) + 1)
        IN /\ Len(resp.body) = Smaller(limit, IF rest > 0 THEN rest ELSE 0)
           /\ \A a, b \in pages :
                 a # b => IdsOf(list_result(employees, dep, a, limit))
                            \cap IdsOf(list_result(employees, dep, b, limit)) = {}
           /\ UNION {{list_result(employees, dep, a, limit)[i] :
                        i \in 1..Len(list_result(employees, dep, a, limit))} : a \in pages}
                = {EmployeeResponse(matching[i]) : i \in 1..Len(matching)}

\* three matching records, limit 2: page 2 has just returned the remaining one
C9_Witness ==
    /\ resp.op = "list" /\ resp.query = Query(Some("Eng"), 2, 2)
    /\ Len(Scan(employees, Some("Eng"))) = 3
    /\ Len(resp.body) = 1

\* how often record x occurs in the sequence s
Count(s, x) == Cardinality({i \in 1..Len(s) : s[i] = x})

\* t holds the records of s, each as often, in some order
Permutation(s, t) ==
    /\ Len(s) = Len(t)
    /\ \A i \in 1..Len(s) : Count(s, s[i]) = Count(t, s[i])

\* the documents at scan positions (page-1)*limit+1 .. page*limit
ScanSlice(coll, q) ==
    LET matched == Scan(coll, q.department)
    IN SubSeq(matched, (q.page - 1) * q.limit + 1, Smaller(q.page * q.limit, Len(matched)))

GlobalSortSlice(coll, q) ==
    LET all == employees_sorted(ParseDates(Scan(coll, q.department)))
    IN SubSeq(all, (q.page - 1) * q.limit + 1, Smaller(q.page * q.limit, Len(all)))

C13_UpdateMissingIsNotFound ==
    [][\A p \in Procs :
          /\ (Leaves(p, "update") /\ ~GetCollectionRaises
                 /\ Matching(employees, req[p].id) = {}) => resp'.status = 404
          /\ (Leaves(p, "update_write") /\ Matching(employees, req[p].id) = {}) =>
                 resp'.status = 404]_vars

\* C15: a list request that supplies a department, the empty string included,
\* returns only records of that department.
C15_SuppliedDepartmentFilters ==
    (resp.op = "list" /\ resp.status = 200 /\ resp.query.department # None) =>
        \A i \in 1..Len(resp.body) : resp.body[i].department = resp.query.department[1]

\* the stored employees named name whose skills hold an element equal to skill
HoldersNamed(coll, skill, name) ==
    {i \in 1..Len(coll) :
        coll[i].name = name /\ skill \in {coll[i].skills[k] : k \in 1..Len(coll[i].skills)}}

\* C11: a skill search returns 200 with exactly one name per stored employee
\* whose skills hold an element equal to the skill (same case, whole element),
\* in ascending name order, and the empty sequence when nobody matches.
C11_SearchBySkill ==
    (resp.op = "search" /\ resp.status # 500) =>
        /\ resp.status = 200
        /\ \A i, j \in 1..Len(resp.body) :
              i < j => ~StringLess(resp.body[j], resp.body[i])
        /\ \A name \in {employees[i].name : i \in 1..Len(employees)} :
              Count(resp.body, name) = Cardinality(HoldersNamed(employees, resp.id, name))
        /\ \A i \in 1..Len(resp.body) :
              HoldersNamed(employees, resp.id, resp.body[i]) # {}

\* "Go" has just been searched in a store that also holds a "go": the two
\* holders of "Go" are named, Ann before Bob, and the holder of "go" is not
C11_Witness ==
    /\ resp.op = "search" /\ resp.id = "Go"
    /\ resp.body = <<"Ann", "Bob">>
    /\ \E i \in 1..Len(employees) : employees[i].skills = <<"go">>

\* C12: the averages hold one entry for each department that has a stored
\* record and none for another, ascending by department, each the mean of the
\* department's salaries rounded to the nearest hundredth.
C12_AverageByDepartment ==
    (resp.op = "avg" /\ resp.status # 500) =>
        /\ resp.status = 200
        /\ {resp.body[i].department : i \in 1..Len(resp.body)}
              = {employees[i].department : i \in 1..Len(employees)}
        /\ \A i, j \in 1..Len(resp.body) :
              i < j => StringLess(resp.body[i].department, resp.body[j].department)
        /\ \A i \in 1..Len(resp.body) :
              LET members == {k \in 1..Len(employees) :
                                 employees[k].department = resp.body[i].department}
                  n == Cardinality(members)
                  sum == SumSalary(employees, resp.body[i].department)
                  gap == 2 * (100 * sum - resp.body[i].avg_salary * n)
              IN n > 0 /\ gap <= n /\ -gap <= n

\* Eng with salaries 100 and 0 and HR with 60 have just been averaged, the HR
\* record stored first: Eng 50.00 comes first, then HR 60.00
C12_Witness ==
    /\ resp.op = "avg"
    /\ Len(employees) = 3 /\ employees[1].department = "HR"
    /\ resp.body = <<DepartmentAvgSalary("Eng", 5000), DepartmentAvgSalary("HR", 6000)>>

\* C14: no two user documents hold the same username, and a create_user call
\* that finds its username taken when it inserts does not insert.
C14_UsernamesUnique ==
    \A i, j \in 1..Len(users) : i # j => users[i].username # users[j].username

====
